---------------------------- MODULE Spec2Model ----------------------------
(***************************************************************************)
(* Model of the "Vo Romario" chatbot (src/main.py): the dialogue engine     *)
(* (ChatbotVoRomario.get_response and the session loop of main), and the    *)
(* pure text functions normalize, extrair_quantidade and extrair_sabor.     *)
(*                                                                          *)
(* Representation.                                                          *)
(*  - An utterance of the dialogue is the sequence of its word tokens, as   *)
(*    word_tokenize(normalize(text)) yields them; preprocess_text then      *)
(*    removes the stopwords.                                                *)
(*  - The context dict only ever holds the value True (main.py:462), so it  *)
(*    is the set of its keys; context.get(c) is truthy iff c is a key.      *)
(*  - An optional value (None or a value) is a sequence of length 0 or 1.   *)
(*  - A dict with optional keys (an intent) carries the set of the keys it  *)
(*    has; dict.get(key) of a missing key is the empty list.                *)
(***************************************************************************)
EXTENDS Naturals, Sequences, FiniteSets

VARIABLES
    intents,        \* self.intents: the intent catalog, in file order
    context,        \* self.context: the set of flags that are True
    pc,             \* where the program is
    user_input,     \* main's user_input: the utterance read last
    greeting,       \* what bot_presentation printed (optional)
    response,       \* what the last get_response returned (optional)
    matched,        \* index of the intent the last get_response answered from, 0 if none
    prev_context,   \* the context at the start of the last get_response
    ever_set,       \* flags that some matched intent's context_set has stored so far
    text,           \* the argument of the pure function under check
    flavor_index,   \* self.flavor_index
    result          \* the pure function's result (optional)

vars == <<intents, context, pc, user_input, greeting, response, matched,
          prev_context, ever_set, text, flavor_index, result>>

pureVars == <<text, flavor_index, result>>

\* ------------------------------------------------------------------ bounds

MaxIntents == 3
MaxInputLen == 2
MaxTextLen == 2
MaxTokens == 3
MaxSaborLen == 4
MaxProducts == 2

\* ----------------------------------------------------------------- helpers

Range(s) == {s[i] : i \in DOMAIN s}

RECURSIVE SeqsUpTo(_, _)
SeqsUpTo(S, n) ==
    IF n = 0 THEN {<<>>}
    ELSE LET shorter == SeqsUpTo(S, n - 1)
         IN  shorter \cup {Append(s, x) : s \in {t \in shorter : Len(t) = n - 1}, x \in S}

RECURSIVE Flatten(_)
Flatten(ss) == IF ss = <<>> THEN <<>> ELSE Head(ss) \o Flatten(Tail(ss))

\* A list without its elements that are in `drop`, order and duplicates kept.
RECURSIVE WithoutAll(_, _)
WithoutAll(s, drop) ==
    IF s = <<>> THEN <<>>
    ELSE IF Head(s) \in drop THEN WithoutAll(Tail(s), drop)
         ELSE <<Head(s)>> \o WithoutAll(Tail(s), drop)

\* --------------------------------------------------------- the text pipeline

\* The Portuguese stopwords among the words of the model.
stop_words == {"de", "e"}

\* preprocess_text on a word sequence: the tokens that are no stopword.
preprocess_text(words) == WithoutAll(words, stop_words)

\* ------------------------------------------------------------- the catalog

Lit(s) == [field |-> FALSE, s |-> s]
Field(s) == [field |-> TRUE, s |-> s]

\* self.data: the substitution keys of the templates.
data == [menu |-> "MENU VO ROMARIO"]

Intent(tag, keys, patterns, responses, context_filter, context_set) ==
    [tag |-> tag, keys |-> keys, patterns |-> patterns, responses |-> responses,
     context_filter |-> context_filter, context_set |-> context_set]

\* intent.get(key): the value of a key the intent has, else the empty list.
Get(intent, key) == IF key \in intent.keys THEN intent[key] ELSE <<>>

\* The intents a catalog of the model is made of.
IntentPool ==
    { Intent("apresentacao", {"patterns"}, << <<"oi">> >>,
             << <<Lit("ola")>>, <<Lit("veja"), Field("menu")>> >>, <<>>, <<>>),
      Intent("comprar", {"patterns", "context_set"}, << <<"quero">>, <<"de">> >>,
             << <<Field("menu")>> >>, <<>>, <<"comprar">>),
      Intent("pedido", {"patterns", "context_filter", "context_set"},
             << <<"quero", "oi">> >>,
             << <<Lit("anotei")>> >>, <<"comprar">>, <<"comprar", "pedido">>),
      Intent("confirmar", {"patterns", "context_filter"}, << <<"oi">>, <<"quero">> >>,
             << <<Lit("confere"), Field("nome")>> >>, <<"comprar", "pedido">>, <<>>),
      Intent("cancelar", {"patterns", "context_filter", "context_set"}, << <<"oi">> >>,
             << <<Lit("cancelado")>> >>, <<>>, <<>>),
      Intent("despedida", {"patterns", "context_set"}, << <<"de", "oi">> >>,
             << <<Lit("ate logo")>> >>, <<>>, <<"desligar">>) }

Catalogs == SeqsUpTo(IntentPool, MaxIntents)

Words == {"oi", "quero", "de"}

Utterances == SeqsUpTo(Words, MaxInputLen)


\* ---------------------------------------------------------- bot_presentation

\* The intents tagged 'apresentacao', by index.
PresentationIndexes(cat) == {i \in DOMAIN cat : cat[i].tag = "apresentacao"}

\* A presentation lookup that falls back on the first intent of the catalog.
presetation_intent_Default(cat) ==
    LET idx == PresentationIndexes(cat)
    IN  IF idx = {} THEN (IF cat = <<>> THEN <<>> ELSE <<1>>)
        ELSE <<CHOOSE i \in idx : \A j \in idx : i <= j>>

\* next(i for i in self.intents if i['tag'] == 'apresentacao'): the first such
\* intent as an optional index; empty when next() raises StopIteration.
presetation_intent(cat) ==
    LET idx == PresentationIndexes(cat)
    IN  IF idx = {} THEN <<>>
        ELSE <<CHOOSE i \in idx : \A j \in idx : i <= j>>

\* A template as it is stored: print() of it shows a field as {name}.
Raw(template) ==
    [k \in DOMAIN template |->
        IF template[k].field THEN "{" \o template[k].s \o "}" ELSE template[k].s]

\* ------------------------------------------------------------- get_response

\* A filter that is never applied.
FilterPasses_Ignored(intent, ctx) == TRUE

\* The context filter lets the intent through: the filter is empty or missing,
\* or all its flags are true in the context.
FilterPasses(intent, ctx) ==
    \/ Len(Get(intent, "context_filter")) = 0
    \/ \A k \in DOMAIN intent.context_filter : intent.context_filter[k] \in ctx

\* any(word in processed_input for word in preprocess_text(' '.join(patterns)))
PatternMatches(intent, processed_input) ==
    LET pattern_words == preprocess_text(Flatten(Get(intent, "patterns")))
    IN  \E k \in DOMAIN pattern_words : pattern_words[k] \in Range(processed_input)

\* A scan that keeps going and answers from the last intent that matches.
RECURSIVE ScanIntents_Last(_, _, _, _)
ScanIntents_Last(cat, i, processed_input, ctx) ==
    IF i > Len(cat) THEN 0
    ELSE LET later == ScanIntents_Last(cat, i + 1, processed_input, ctx)
         IN  IF later # 0 THEN later
             ELSE IF FilterPasses(cat[i], ctx) /\ PatternMatches(cat[i], processed_input)
                  THEN i ELSE 0

\* The for loop over self.intents from index i on: the index of the first intent
\* that is not skipped and whose patterns match, 0 when the loop runs to its end.
RECURSIVE ScanIntents(_, _, _, _)
ScanIntents(cat, i, processed_input, ctx) ==
    IF i > Len(cat) THEN 0
    ELSE IF ~FilterPasses(cat[i], ctx)
         THEN ScanIntents(cat, i + 1, processed_input, ctx)
         ELSE IF PatternMatches(cat[i], processed_input) THEN i
              ELSE ScanIntents(cat, i + 1, processed_input, ctx)

\* A context_set that is merged into the context.
NewContext_Merge(intent, ctx) ==
    IF Len(Get(intent, "context_set")) > 0
    THEN ctx \cup Range(intent.context_set) ELSE ctx

\* A context that is rebuilt on every match, context_set or not.
NewContext_Always(intent, ctx) == Range(Get(intent, "context_set"))

\* The context after the intent matched: replaced when context_set is truthy.
NewContext(intent, ctx) ==
    IF Len(Get(intent, "context_set")) > 0 THEN Range(intent.context_set) ELSE ctx

\* response.format(**self.data) raises KeyError on a field data does not have.
FormatRaises(template) ==
    \E k \in DOMAIN template : template[k].field /\ template[k].s \notin DOMAIN data

Format(template) ==
    [k \in DOMAIN template |->
        IF template[k].field THEN data[template[k].s] ELSE template[k].s]

Fallback == <<"Desculpe, nao entendi.">>

\* ------------------------------------------------------------------- main

\* A loop that never tests the flag.
LoopCondition_Forever == TRUE

\* while not bot.context.get('desligar')
LoopCondition == "desligar" \notin context

DialogueInit ==
    /\ intents \in Catalogs
    /\ context = {}
    /\ pc = "start"
    /\ user_input = <<>>
    /\ greeting = <<>>
    /\ response = <<>>
    /\ matched = 0
    /\ prev_context = {}
    /\ ever_set = {}
    /\ text = <<>>
    /\ flavor_index = <<>>
    /\ result = <<>>

\* ChatbotVoRomario(): the context starts empty, then bot_presentation prints one
\* response of the presentation intent, or raises when there is none.
Construct ==
    /\ pc = "start"
    /\ context' = {}
    /\ LET p == presetation_intent(intents)
       IN  IF p = <<>>
           THEN /\ pc' = "failed"
                /\ greeting' = <<>>
           ELSE /\ pc' = "loop"
                /\ \E r \in DOMAIN intents[p[1]].responses :
                      greeting' = <<Raw(intents[p[1]].responses[r])>>
    /\ UNCHANGED <<intents, user_input, response, matched, prev_context, ever_set>>
    /\ UNCHANGED pureVars

\* The loop test holds: input() reads the next utterance.
ReadInput ==
    /\ pc = "loop"
    /\ LoopCondition
    /\ \E u \in Utterances : user_input' = u
    /\ pc' = "got_input"
    /\ response' = <<>>
    /\ matched' = 0
    /\ prev_context' = context
    /\ UNCHANGED <<intents, context, greeting, ever_set>>
    /\ UNCHANGED pureVars

\* bot.get_response(user_input), and the print of what it returned. The print of
\* the flavor index under the flag 'comprar' (main.py:464-466) changes no state.
GetResponse ==
    /\ pc = "got_input"
    /\ LET processed_input == preprocess_text(user_input)
           i == ScanIntents(intents, 1, processed_input, context)
       IN  /\ matched' = i
           /\ IF i = 0
              THEN /\ response' = <<Fallback>>
                   /\ pc' = "loop"
                   /\ UNCHANGED <<context, ever_set>>
              ELSE /\ context' = NewContext(intents[i], context)
                   /\ ever_set' = ever_set \cup
                         (IF Len(Get(intents[i], "context_set")) > 0
                          THEN Range(intents[i].context_set) ELSE {})
                   /\ \E r \in DOMAIN intents[i].responses :
                         IF FormatRaises(intents[i].responses[r])
                         THEN /\ response' = <<>>
                              /\ pc' = "failed"
                         ELSE /\ response' = <<Format(intents[i].responses[r])>>
                              /\ pc' = "loop"
    /\ UNCHANGED <<intents, user_input, greeting, prev_context>>
    /\ UNCHANGED pureVars

\* The loop test fails: main returns.
LoopExit ==
    /\ pc = "loop"
    /\ ~LoopCondition
    /\ pc' = "stopped"
    /\ UNCHANGED <<intents, context, user_input, greeting, response, matched,
                   prev_context, ever_set>>
    /\ UNCHANGED pureVars

Next == Construct \/ ReadInput \/ GetResponse \/ LoopExit

Spec == DialogueInit /\ [][Next]_vars


\* ------------------------------------------------ properties of the dialogue

\* A get_response call has returned or raised, and nothing was read since.
Answered ==
    /\ greeting # <<>>
    /\ pc \in {"loop", "failed", "stopped"}
    /\ (response # <<>> \/ pc = "failed")

FilterFlags(intent) == Range(Get(intent, "context_filter"))

SetFlags(intent) == Range(Get(intent, "context_set"))

\* The tokens the intent's patterns share with the utterance read last.
SharedTokens(intent) ==
    Range(preprocess_text(Flatten(Get(intent, "patterns"))))
        \cap Range(preprocess_text(user_input))

\* C1 as stated: after get_response answered from an intent that declares a
\* context_set, of any size, the context is exactly the flags of that set.
C1_DeclaredSetReplaces ==
    (Answered /\ matched # 0 /\ "context_set" \in intents[matched].keys)
        => context = Range(intents[matched].context_set)

\* C1 amended: after get_response answered from an intent that declares a
\* non-empty context_set, the context is exactly the flags of that set; every
\* flag stored before the call and not in the set is gone.
C1_NonEmptySetReplaces ==
    (Answered /\ matched # 0 /\ "context_set" \in intents[matched].keys
              /\ Len(intents[matched].context_set) > 0)
        => /\ context = Range(intents[matched].context_set)
           /\ (prev_context \ Range(intents[matched].context_set)) \cap context = {}

\* A non-empty context_set was applied and dropped a flag stored before.
C1_Witness ==
    /\ Answered /\ matched # 0
    /\ Len(Get(intents[matched], "context_set")) > 0
    /\ prev_context \ SetFlags(intents[matched]) # {}

\* C2: get_response never answers from an intent whose context_filter names a
\* flag that is not true at the start of the call; an intent filtered on a flag
\* is never matched before a matched intent's context_set stored that flag; and
\* right after an intent matched whose context_set holds all the flags of a
\* filter, the filtered intent passes its filter.
C2_FilterGates ==
    /\ [](matched # 0 => FilterFlags(intents[matched]) \subseteq prev_context)
    /\ [][matched' # 0 => FilterFlags(intents'[matched']) \subseteq ever_set]_vars
    /\ []((Answered /\ matched # 0 /\ SetFlags(intents[matched]) # {})
            => \A j \in DOMAIN intents :
                  FilterFlags(intents[j]) \subseteq SetFlags(intents[matched])
                      => FilterPasses(intents[j], context))

\* A filtered intent answered, in the turn right after the intent that set its flag.
C2_Witness ==
    /\ Answered /\ matched # 0
    /\ FilterFlags(intents[matched]) # {}
    /\ pc = "loop"

\* The intents that pass their filter on the context at the start of the call
\* and share a token with the utterance.
EligibleIntents ==
    {i \in DOMAIN intents :
        /\ FilterFlags(intents[i]) = {} \/ FilterFlags(intents[i]) \subseteq prev_context
        /\ SharedTokens(intents[i]) # {}}

\* C3: get_response answers from the first intent, in catalog order, that passes
\* its filter and shares a token with the input, however many tokens a later one
\* shares; only that intent's context_set is applied; with no such intent the
\* fallback message is returned.
C3_FirstMatchWins ==
    Answered =>
        IF EligibleIntents = {}
        THEN matched = 0 /\ response = <<Fallback>>
        ELSE /\ matched \in EligibleIntents
             /\ \A j \in EligibleIntents : matched <= j
             /\ context = NewContext(intents[matched], prev_context)

\* A later intent was eligible and shared more tokens than the one that answered.
C3_Witness ==
    /\ Answered /\ matched # 0
    /\ \E j \in EligibleIntents :
          /\ j > matched
          /\ Cardinality(SharedTokens(intents[j])) > Cardinality(SharedTokens(intents[matched]))

\* C4: when no intent matched, or the matched intent declares no context_set,
\* the context after get_response is the context before it.
C4_ContextFrame ==
    (Answered /\ (matched = 0 \/ "context_set" \notin intents[matched].keys))
        => context = prev_context

\* An intent without context_set answered while flags were stored.
C4_Witness ==
    /\ Answered /\ matched # 0
    /\ "context_set" \notin intents[matched].keys
    /\ prev_context # {}

\* C5: an utterance is read and processed iff 'desligar' is not true in the
\* context the previous turn left: with the flag set nothing is read or processed
\* and the loop ends; without it the loop reads on and does not end.
C5_TerminationFlag ==
    /\ pc = "got_input" => "desligar" \notin context
    /\ pc = "stopped" => "desligar" \in context
    /\ "desligar" \in context => ~ENABLED ReadInput /\ ~ENABLED GetResponse
    /\ (pc = "loop" /\ "desligar" \in context) => ENABLED LoopExit
    /\ (pc = "loop" /\ "desligar" \notin context) => ENABLED ReadInput /\ ~ENABLED LoopExit

\* The session ended after a matched intent stored the flag.
C5_Witness ==
    /\ pc = "stopped"
    /\ matched # 0
    /\ "desligar" \in SetFlags(intents[matched])

\* C6: construction prints one response of the first intent tagged 'apresentacao'
\* before any utterance is read, with the context empty; without such an intent
\* construction fails and no utterance is ever read or answered.
C6_Presentation ==
    /\ (pc # "start" /\ PresentationIndexes(intents) # {})
          => \E i \in PresentationIndexes(intents) :
                /\ \A j \in PresentationIndexes(intents) : i <= j
                /\ \E r \in DOMAIN intents[i].responses :
                      greeting = <<Raw(intents[i].responses[r])>>
    /\ greeting = <<>> => /\ pc \in {"start", "failed"}
                          /\ response = <<>> /\ matched = 0 /\ user_input = <<>>
    /\ (pc = "loop" /\ response = <<>>) => context = {}
    /\ PresentationIndexes(intents) = {}
          => pc \in {"start", "failed"} /\ greeting = <<>> /\ response = <<>>

\* The greeting of a presentation intent that is not the first of the catalog was
\* printed and nothing was read yet.
C6_Witness ==
    /\ pc = "loop" /\ response = <<>> /\ greeting # <<>>
    /\ 1 \notin PresentationIndexes(intents)


\* The dialogue's variables, unused by the specifications of the pure functions.
DialogueIdle ==
    /\ intents = <<>>
    /\ context = {}
    /\ user_input = <<>>
    /\ greeting = <<>>
    /\ response = <<>>
    /\ matched = 0
    /\ prev_context = {}
    /\ ever_set = {}

DialogueUnchanged ==
    UNCHANGED <<intents, context, user_input, greeting, response, matched,
                prev_context, ever_set>>

\* ---------------------------------------------------------------- normalize
\* A text is the sequence of its characters; a character is named by itself or
\* by its code point: U+00C3 is A with tilde, U+00E3 is a with tilde, U+0303 is
\* the combining tilde, U+2260 is NOT EQUAL TO, U+0338 is the combining long
\* solidus overlay.

Chars == {"A", "a", "U+00C3", "U+00E3", "U+0303", "!", "=", "U+2260", "U+0338", " "}

Texts == SeqsUpTo(Chars, MaxTextLen)

\* str.lower, character by character.
lower(c) ==
    CASE c = "A" -> "a"
      [] c = "U+00C3" -> "U+00E3"
      [] OTHER -> c

\* string.punctuation: the ASCII punctuation among the characters of the model.
punctuation == {"!", "="}

\* unicodedata.normalize('NFD', c): the canonical decomposition of a character.
NFD(c) ==
    CASE c = "U+00C3" -> <<"A", "U+0303">>
      [] c = "U+00E3" -> <<"a", "U+0303">>
      [] c = "U+2260" -> <<"=", "U+0338">>
      [] OTHER -> <<c>>

\* The characters of category Mn (nonspacing mark).
Mn == {"U+0303", "U+0338"}

\* text.lower()
RECURSIVE LowerAll(_)
LowerAll(s) == IF s = <<>> THEN <<>> ELSE <<lower(Head(s))>> \o LowerAll(Tail(s))

\* unicodedata.normalize('NFD', text): the decompositions, in order. (NFD also
\* reorders adjacent marks, all of which are dropped next.)
RECURSIVE DecomposeAll(_)
DecomposeAll(s) == IF s = <<>> THEN <<>> ELSE NFD(Head(s)) \o DecomposeAll(Tail(s))

\* normalize: lowercase, then remove the punctuation, then decompose to NFD and
\* drop the marks.
normalize(t) ==
    LET lowered == LowerAll(t)
        stripped == WithoutAll(lowered, punctuation)
        decomposed == DecomposeAll(stripped)
    IN  WithoutAll(decomposed, Mn)

NormalizeInit ==
    /\ text \in Texts
    /\ pc = "call"
    /\ result = <<>>
    /\ flavor_index = <<>>
    /\ DialogueIdle

\* normalize(text)
NormalizeOnce ==
    /\ pc = "call"
    /\ result' = <<normalize(text)>>
    /\ pc' = "once"
    /\ UNCHANGED <<text, flavor_index>>
    /\ DialogueUnchanged

\* normalize of what normalize returned
NormalizeTwice ==
    /\ pc = "once"
    /\ result' = <<normalize(result[1])>>
    /\ pc' = "twice"
    /\ UNCHANGED <<text, flavor_index>>
    /\ DialogueUnchanged

NormalizeNext == NormalizeOnce \/ NormalizeTwice

SpecNormalize == NormalizeInit /\ [][NormalizeNext]_vars

\* C10: normalize is idempotent: normalize(normalize(x)) = normalize(x).
C10_NormalizeIdempotent ==
    pc = "twice" => result = <<normalize(text)>>

\* ------------------------------------------------------- extrair_quantidade
\* A normalized text is the sequence of its words: the maximal runs of word
\* characters, which whitespace separates. On such a text \bw\b matches a word
\* equal to w, and \s+ stands between two consecutive words.

\* num_words, in the order the dict literal inserts its keys.
num_words ==
    << <<"um", 1>>, <<"uma", 1>>, <<"dois", 2>>, <<"duas", 2>>, <<"tres", 3>>,
       <<"quatro", 4>>, <<"cinco", 5>>, <<"seis", 6>>, <<"sete", 7>>, <<"oito", 8>>,
       <<"nove", 9>>, <<"dez", 10>>, <<"onze", 11>>, <<"doze", 12>>, <<"treze", 13>>,
       <<"quatorze", 14>>, <<"catore", 14>>, <<"quinze", 15>>, <<"dezesseis", 16>>,
       <<"dezessete", 17>>, <<"dezoito", 18>>, <<"dezenove", 19>>, <<"vinte", 20>> >>

\* The words made of digits only: the number of digits and int() of each.
Numerals == [w \in {"7", "12", "123"} |->
                CASE w = "7" -> [digits |-> 1, value |-> 7]
                  [] w = "12" -> [digits |-> 2, value |-> 12]
                  [] w = "123" -> [digits |-> 3, value |-> 123]]

QuantityWords == {"meia", "duzia", "um", "uma", "dois", "dez", "vinte", "e"}
                    \cup DOMAIN Numerals

QuantityTexts == SeqsUpTo(QuantityWords, MaxTokens)

\* re.search(r'\b(first)\s+d[uú]zia\b'): a word of `first` right before duzia.
DozenIdiom(t, first) ==
    \E k \in 1..(Len(t) - 1) : t[k] \in first /\ t[k + 1] \in {"duzia", "dúzia"}

\* \b(\d{1,2})\b matches exactly the words of one or two digits.
ShortNumeral(w) == w \in DOMAIN Numerals /\ Numerals[w].digits <= 2

\* re.search(r'\b(\d{1,2})\b'): the leftmost such word, from position k on.
RECURSIVE SearchDigits(_, _)
SearchDigits(t, k) ==
    IF k > Len(t) THEN <<>>
    ELSE IF ShortNumeral(t[k]) THEN <<Numerals[t[k]].value>>
         ELSE SearchDigits(t, k + 1)

\* A scan that takes the first number word of the text, not of the table.
RECURSIVE ScanNumWords_InputOrder(_, _)
ScanNumWords_InputOrder(t, k) ==
    IF k > Len(t) THEN <<>>
    ELSE LET hits == {i \in DOMAIN num_words : num_words[i][1] = t[k]}
         IN  IF hits # {} THEN <<num_words[CHOOSE i \in hits : TRUE][2]>>
             ELSE ScanNumWords_InputOrder(t, k + 1)

\* for w, n in num_words.items(): the first entry, from k on, whose word occurs.
RECURSIVE ScanNumWords(_, _)
ScanNumWords(t, k) ==
    IF k > Len(num_words) THEN <<>>
    ELSE IF num_words[k][1] \in Range(t) THEN <<num_words[k][2]>>
         ELSE ScanNumWords(t, k + 1)

extrair_quantidade(t) ==
    IF DozenIdiom(t, {"meia"}) THEN <<6>>
    ELSE IF DozenIdiom(t, {"um", "uma"}) THEN <<12>>
    ELSE IF SearchDigits(t, 1) # <<>> THEN SearchDigits(t, 1)
    ELSE ScanNumWords(t, 1)

QuantidadeInit ==
    /\ text \in QuantityTexts
    /\ pc = "call"
    /\ result = <<>>
    /\ flavor_index = <<>>
    /\ DialogueIdle

ExtrairQuantidade ==
    /\ pc = "call"
    /\ result' = extrair_quantidade(text)
    /\ pc' = "done"
    /\ UNCHANGED <<text, flavor_index>>
    /\ DialogueUnchanged

SpecQuantidade == QuantidadeInit /\ [][ExtrairQuantidade]_vars

\* The values of the number words of the table that occur in the text.
NumberWordValues(t) ==
    {num_words[i][2] : i \in {j \in DOMAIN num_words : num_words[j][1] \in Range(t)}}

\* The positions of the text that hold a numeral of one or two digits.
ShortNumeralPositions(t) == {k \in DOMAIN t : ShortNumeral(t[k])}

\* C7: extrair_quantidade is the four rules in priority order: 6 for the
\* half-a-dozen idiom; else 12 for the a-dozen idiom; else the first standalone
\* numeral of one or two digits; else the smallest value among the number words
\* of the table that occur as whole words; else nothing.
C7_FourRules ==
    pc = "done" =>
        result =
            IF \E k \in DOMAIN text : text[k] = "meia" /\ k < Len(text) /\ text[k + 1] = "duzia"
            THEN <<6>>
            ELSE IF \E k \in DOMAIN text :
                        text[k] \in {"um", "uma"} /\ k < Len(text) /\ text[k + 1] = "duzia"
            THEN <<12>>
            ELSE IF ShortNumeralPositions(text) # {}
            THEN LET k == CHOOSE i \in ShortNumeralPositions(text) :
                              \A j \in ShortNumeralPositions(text) : i <= j
                 IN  <<Numerals[text[k]].value>>
            ELSE IF NumberWordValues(text) # {}
            THEN <<CHOOSE n \in NumberWordValues(text) :
                        \A m \in NumberWordValues(text) : n <= m>>
            ELSE <<>>

\* The number words decided, and the first of them in the text is not the smallest.
C7_Witness ==
    /\ pc = "done"
    /\ Len(text) >= 2
    /\ text[1] = "dez" /\ text[2] = "dois"
    /\ ShortNumeralPositions(text) = {}
    /\ result = <<2>>

\* The words that are no cue of a quantity.
Filler == {"e"}

\* The text's only cue is a compound spelled number (vinte e <unit>).
OnlyCompound(t) ==
    \E k \in 1..(Len(t) - 2) :
        /\ t[k] = "vinte" /\ t[k + 1] = "e"
        /\ t[k + 2] \in {"um", "uma", "dois"}
        /\ \A j \in DOMAIN t : j \notin {k, k + 1, k + 2} => t[j] \in Filler

\* The text's only cue is a numeral of more than two digits.
OnlyLongNumeral(t) ==
    \E k \in DOMAIN t :
        /\ t[k] \in DOMAIN Numerals /\ Numerals[t[k]].digits > 2
        /\ \A j \in DOMAIN t : j # k => t[j] \in Filler

\* C8: a text whose only quantity cue is a compound spelled number or a numeral
\* of more than two digits yields nothing.
C8_NoGuess ==
    (pc = "done" /\ (OnlyCompound(text) \/ OnlyLongNumeral(text))) => result = <<>>


\* ------------------------------------------------------------ extrair_sabor
\* Here a normalized text is the sequence of its characters, over the letters
\* a and b and the space; the word a is a stopword.

SaborChars == {"a", "b", " "}

SaborTexts == SeqsUpTo(SaborChars, MaxSaborLen)

\* re.findall(r'\w+', t) as a set: the maximal runs of word characters.
WordSet(t) ==
    {SubSeq(t, i, j) : <<i, j>> \in
        {<<i, j>> \in (DOMAIN t) \X (DOMAIN t) :
            /\ i <= j
            /\ \A k \in i..j : t[k] # " "
            /\ (i = 1 \/ t[i - 1] = " ")
            /\ (j = Len(t) \/ t[j + 1] = " ")}}

\* The stopwords spelled over the letters of these texts.
sabor_stop_words == {<<"a">>}

\* One entry of build_flavor_index: the displayed name, the phrase of the
\* normalized name, and the phrase's words that are no stopword.
FlavorEntry(original, phrase) ==
    [original |-> original, phrase |-> phrase,
     keywords |-> WordSet(phrase) \ sabor_stop_words]

\* The entries an index of the model is made of.
FlavorPool ==
    { FlavorEntry("Bolo de B", <<"b">>),
      FlavorEntry("Bolos de B", <<"b">>),
      FlavorEntry("Bolo de A B", <<"a", " ", "b">>),
      FlavorEntry("Bolo de AB", <<"a", "b">>),
      FlavorEntry("Bolo de B AB", <<"b", " ", "a", "b">>),
      FlavorEntry("", <<>>) }

FlavorIndexes == SeqsUpTo(FlavorPool, MaxProducts)

\* item['phrase'] in text_norm: a contiguous run of the text equals the phrase.
Occurs(phrase, t) ==
    \E k \in 0..(Len(t) - Len(phrase)) : SubSeq(t, k + 1, k + Len(phrase)) = phrase

\* The score of one entry of the index.
Score(item, t) ==
    (IF Len(item.phrase) > 0 /\ Occurs(item.phrase, t) THEN Len(item.phrase) ELSE 0)
    + (IF item.keywords # {} THEN Cardinality(item.keywords \cap WordSet(t)) * 3 ELSE 0)

\* A loop in which an entry that ties the best score takes the lead.
RECURSIVE ScanFlavors_LastTie(_, _, _, _, _)
ScanFlavors_LastTie(index, k, t, best, best_score) ==
    IF k > Len(index) THEN <<best, best_score>>
    ELSE IF Score(index[k], t) >= best_score
         THEN ScanFlavors_LastTie(index, k + 1, t, <<index[k]>>, Score(index[k], t))
         ELSE ScanFlavors_LastTie(index, k + 1, t, best, best_score)

\* for item in self.flavor_index, from k on: the best entry (optional) and its score.
RECURSIVE ScanFlavors(_, _, _, _, _)
ScanFlavors(index, k, t, best, best_score) ==
    IF k > Len(index) THEN <<best, best_score>>
    ELSE IF Score(index[k], t) > best_score
         THEN ScanFlavors(index, k + 1, t, <<index[k]>>, Score(index[k], t))
         ELSE ScanFlavors(index, k + 1, t, best, best_score)

extrair_sabor(index, t) ==
    LET found == ScanFlavors(index, 1, t, <<>>, 0)
        best == found[1]
        best_score == found[2]
    IN  IF best # <<>> /\ best_score > 0
        THEN <<[produto |-> best[1].original, sabor |-> best[1].phrase]>>
        ELSE <<>>

SaborInit ==
    /\ text \in SaborTexts
    /\ flavor_index \in FlavorIndexes
    /\ pc = "call"
    /\ result = <<>>
    /\ DialogueIdle

ExtrairSabor ==
    /\ pc = "call"
    /\ result' = extrair_sabor(flavor_index, text)
    /\ pc' = "done"
    /\ UNCHANGED <<text, flavor_index>>
    /\ DialogueUnchanged

SpecSabor == SaborInit /\ [][ExtrairSabor]_vars

\* The entries of the index with the maximum score.
BestEntries ==
    {i \in DOMAIN flavor_index :
        \A j \in DOMAIN flavor_index :
            Score(flavor_index[j], text) <= Score(flavor_index[i], text)}

\* C9: extrair_sabor returns the entry with the maximum score (phrase length if
\* the phrase occurs in the text, plus 3 per keyword among the text's words), the
\* earliest in catalog order among those with the maximum; nothing when no entry
\* scores above 0.
C9_BestScoreFirstTie ==
    pc = "done" =>
        IF \A i \in DOMAIN flavor_index : Score(flavor_index[i], text) = 0
        THEN result = <<>>
        ELSE LET i == CHOOSE b \in BestEntries : \A c \in BestEntries : b <= c
             IN  result = <<[produto |-> flavor_index[i].original,
                             sabor |-> flavor_index[i].phrase]>>

\* Two entries with different names tie on a positive maximum score.
C9_Witness ==
    /\ pc = "done"
    /\ Cardinality(BestEntries) >= 2
    /\ \E i \in BestEntries : \E j \in BestEntries :
          flavor_index[i].original # flavor_index[j].original
    /\ result # <<>>

==========================================================================
